---- MODULE Spec2Model ----
(***************************************************************************)
(* A model of scrapenhl/scrape/scrape_game.py: the shift expansion         *)
(* read_shifts_from_json (a pure function over a list of shift records)    *)
(* and the raw-file cache of scrape_game.                                  *)
(*                                                                         *)
(* pandas data frames are modelled relationally.  A row of the expanded    *)
(* frame is [i, Time]: i is the position of the shift record it was made   *)
(* from (two identical records give two rows), Time the second.  A frame   *)
(* with no row passes through rank, merge and pivot as a frame with no row *)
(* (and a pivot with no column).  sort_values is not a stable sort, so the *)
(* order of rows of equal Duration after it is any order.                  *)
(***************************************************************************)
EXTENDS Integers, Sequences, FiniteSets, TLC

(***************************************************************************)
(* Bounds of the checked inputs.                                           *)
(***************************************************************************)
MaxLen == 2        \* longest list of records of the general family
MaxStack == 3      \* most shifts of one player
MaxLineup == 7     \* most players of one team on the ice at once
MaxTeamLen == 3    \* longest list of the family of team orders
MaxPeriod == 2     \* last period of the family of team orders
FullShift == 10    \* end clock second of a full shift of a lineup

(***************************************************************************)
(* Python's None, for homename / roadname and for the returned value.      *)
(***************************************************************************)
None == "None"

\* The absent value a left merge fills in (line 333).
NaN == -1

\* Seconds per period (lines 272 and 276).
PeriodSeconds == 1200

\* .iloc[:, 1:6] (lines 328 and 330): column positions 1 to 5, counted from 0.
IlocFrom == 1
IlocTo == 6

Max(S) == CHOOSE x \in S : \A y \in S : y <= x
Min(S) == CHOOSE x \in S : \A y \in S : x <= y

(***************************************************************************)
(* Clock strings "M:SS" are sequences of characters.                       *)
(***************************************************************************)
Digits == <<"0", "1", "2", "3", "4", "5", "6", "7", "8", "9">>

DigitVal(c) == (CHOOSE d \in 1..10 : Digits[d] = c) - 1

\* str(n) for n >= 0
RECURSIVE Str(_)
Str(n) == IF n < 10 THEN <<Digits[n + 1]>>
          ELSE Str(n \div 10) \o <<Digits[(n % 10) + 1]>>

\* int(s) for a string of digits
RECURSIVE ParseInt(_)
ParseInt(s) == IF Len(s) = 0 THEN 0
               ELSE 10 * ParseInt(SubSeq(s, 1, Len(s) - 1)) + DigitVal(s[Len(s)])

\* the clock string the API sends for m minutes and s seconds
Clock(m, s) == Str(m) \o <<":">> \o (IF s < 10 THEN <<"0">> ELSE <<>>) \o Str(s)

\* x.index(':'), as a position counted from 1
IndexOfColon(x) == CHOOSE i \in 1..Len(x) : x[i] = ":" /\ \A j \in 1..(i - 1) : x[j] # ":"

\* x[:x.index(':')] and x[x.index(':') + 1:]
ClockMin(x) == SubSeq(x, 1, IndexOfColon(x) - 1)
ClockSec(x) == SubSeq(x, IndexOfColon(x) + 1, Len(x))

\* line 272
StartTime(r) == PeriodSeconds * (r.period - 1) + 60 * ParseInt(ClockMin(r.startTime))
                + ParseInt(ClockSec(r.startTime))

\* line 276 without its "- 1"
EndTimeAlt(r) == PeriodSeconds * (r.period - 1) + 60 * ParseInt(ClockMin(r.endTime))
                 + ParseInt(ClockSec(r.endTime))

\* line 276
EndTime(r) == PeriodSeconds * (r.period - 1) + 60 * ParseInt(ClockMin(r.endTime))
              + ParseInt(ClockSec(r.endTime)) - 1

\* line 278
DurationTime(r) == EndTime(r) - StartTime(r)

(***************************************************************************)
(* The state: the arguments of one call of read_shifts_from_json, the data *)
(* frames it builds, and what it returns or raises.                        *)
(***************************************************************************)
VARIABLES
    pc,        \* "call" before the call, "done" after it
    data,      \* argument: the list of shift records
    homename,  \* argument, None when omitted
    roadname,  \* argument, None when omitted
    home,      \* homename after lines 263-268
    road,      \* roadname after lines 263-268
    df,        \* the frame of lines 281-282, one row per record
    tempdf,    \* the expanded frame of line 299: a set of rows [i, Time]
    hranked,   \* the home rows with their rank column (line 307): [i, Time, rank]
    rranked,   \* the road rows with their rank column (line 313)
    hdf,       \* the home rows after duplicate resolution (line 320)
    rdf,       \* the road rows after duplicate resolution (line 325)
    ret        \* [kind, toi]: kind is "pending", "None", "table" or the error raised

shiftVars ==
    <<pc, data, homename, roadname, home, road, df, tempdf, hranked, rranked, hdf, rdf, ret>>

Range(s) == {s[k] : k \in 1..Len(s)}

\* lines 254-260: the team column read from the records
Teams(d) == [k \in 1..Len(d) |-> d[k].teamAbbrev]

\* lines 265-268 with the scan made from the start of the list
ScanFromEndAlt(teams, i, h, r) ==
    LET differ == {k \in 2..i : teams[k] # h}
    IN  IF differ = {} THEN r ELSE teams[Min(differ)]

\* lines 265-268: for i in range(len(teams) - 1, 0, -1), positions counted from 1
RECURSIVE ScanFromEnd(_, _, _, _)
ScanFromEnd(teams, i, h, r) ==
    IF i < 2 THEN r
    ELSE IF teams[i] # h THEN teams[i]
    ELSE ScanFromEnd(teams, i - 1, h, r)

\* lines 263-264
InferHome(d, h) == IF h = None THEN Teams(d)[1] ELSE h

\* lines 263-268
InferRoad(d, h, r) ==
    IF h = None THEN ScanFromEnd(Teams(d), Len(d), Teams(d)[1], r) ELSE r

\* lines 281-282: the frame df, one row per record
Df(d) ==
    [k \in 1..Len(d) |->
        [PlayerID |-> d[k].playerId, Period |-> d[k].period, Start |-> StartTime(d[k]),
         End |-> EndTime(d[k]), Team |-> d[k].teamAbbrev, Duration |-> DurationTime(d[k])]]

\* max(df.End)
MaxEnd(fr) == Max({fr[k].End : k \in 1..Len(fr)})

\* line 289 as range(0, max(df.End))
ToiTimesAlt(fr) == [k \in 1..MaxEnd(fr) |-> k - 1]

\* line 289: range(0, max(df.End) + 1)
ToiTimes(fr) == [k \in 1..(MaxEnd(fr) + 1) |-> k - 1]

\* lines 292-297: the rows still in tempdf are merged with toi, then moved one
\* second on, then filtered by Time <= End
RECURSIVE ExpandLoop(_, _, _, _)
ExpandLoop(fr, times, cur, acc) ==
    IF cur = {} THEN acc
    ELSE LET temptoi == {e \in cur : e.Time \in times}
             moved == {[i |-> e.i, Time |-> e.Time + 1] : e \in cur}
         IN  ExpandLoop(fr, times, {e \in moved : e.Time <= fr[e.i].End},
                        acc \cup temptoi)

\* lines 285-299
Expand(fr) ==
    ExpandLoop(fr, Range(ToiTimes(fr)),
               {[i |-> k, Time |-> fr[k].Start] : k \in 1..Len(fr)}, {})

\* lines 303 and 309: query('Team == "<name>"')
TeamRows(fr, rows, team) == {e \in rows : fr[e.i].Team = team}

\* lines 304-306 and 310-312: groupby('Time').rank() of PlayerID (average rank of
\* ties), then int()
Rank(fr, trows, e) ==
    LET grp == {x \in trows : x.Time = e.Time}
        less == Cardinality({x \in grp : fr[x.i].PlayerID < fr[e.i].PlayerID})
        same == Cardinality({x \in grp : fr[x.i].PlayerID = fr[e.i].PlayerID})
    IN  less + ((same + 1) \div 2)

\* lines 303-307 and 309-313: the rows of one team with their column 'rank', the
\* team code followed by str(rank)
Ranked(fr, rows, team) ==
    LET trows == TeamRows(fr, rows, team)
    IN  {[i |-> e.i, Time |-> e.Time, rank |-> <<team>> \o Str(Rank(fr, trows, e))] :
            e \in trows}

\* lines 317-320 and 322-325 for one group, after an ascending sort
KeptOfGroupAlt(fr, grp) ==
    LET top == Min({fr[e.i].Duration : e \in grp})
        firsts == {e \in grp : fr[e.i].Duration = top}
    IN  { {e \in grp : /\ fr[e.i].Start = fr[f.i].Start
                       /\ fr[e.i].End = fr[f.i].End
                       /\ e.rank = f.rank} : f \in firsts }

\* lines 317-320 and 322-325 for one (Time, PlayerID) group: the first row of the
\* group after the sort by Duration, descending (any row of the greatest
\* Duration: the sort is not stable), and the rows of the group the merge on
\* Time, PlayerID, Start, End, Team and rank matches with it
KeptOfGroup(fr, grp) ==
    LET top == Max({fr[e.i].Duration : e \in grp})
        firsts == {e \in grp : fr[e.i].Duration = top}
    IN  { {e \in grp : /\ fr[e.i].Start = fr[f.i].Start
                       /\ fr[e.i].End = fr[f.i].End
                       /\ e.rank = f.rank} : f \in firsts }

RECURSIVE KeptOfGroups(_, _, _)
KeptOfGroups(fr, trows, groups) ==
    IF groups = {} THEN {{}}
    ELSE LET g == CHOOSE x \in groups : TRUE
             grp == {e \in trows : e.Time = g[1] /\ fr[e.i].PlayerID = g[2]}
         IN  {k \cup rest : k \in KeptOfGroup(fr, grp),
                            rest \in KeptOfGroups(fr, trows, groups \ {g})}

\* lines 317-320 and 322-325: every frame duplicate resolution can leave
Dedupe(fr, trows) ==
    KeptOfGroups(fr, trows, {<<e.Time, fr[e.i].PlayerID>> : e \in trows})

\* pivot (lines 328 and 330) raises ValueError when two rows share index and column
PivotDuplicates(kept) ==
    \E e1 \in kept, e2 \in kept : e1 # e2 /\ e1.Time = e2.Time /\ e1.rank = e2.rank

\* the order of Python strings, for names that differ first at a digit
RECURSIVE StrLess(_, _)
StrLess(a, b) ==
    IF Len(a) = 0 THEN Len(b) > 0
    ELSE IF Len(b) = 0 THEN FALSE
    ELSE IF a[1] = b[1] THEN StrLess(Tail(a), Tail(b))
    ELSE DigitVal(a[1]) < DigitVal(b[1])

\* the columns of a pivot are its column values in sorted order
RECURSIVE SortNames(_)
SortNames(S) ==
    IF S = {} THEN <<>>
    ELSE LET m == CHOOSE x \in S : \A y \in S \ {x} : StrLess(x, y)
         IN  <<m>> \o SortNames(S \ {m})

\* pivot(index = 'Time', columns = 'rank', values = 'PlayerID'): the columns
PivotColumns(kept) == SortNames({e.rank : e \in kept})

\* .iloc[:, 1:]
IlocAlt(cols) == SubSeq(cols, IlocFrom + 1, Len(cols))

\* .iloc[:, 1:6]
Iloc(cols) ==
    SubSeq(cols, IlocFrom + 1, IF Len(cols) < IlocTo THEN Len(cols) ELSE IlocTo)

\* lines 328 and 330: the columns kept of a team's pivot
TeamColumns(kept) == Iloc(PivotColumns(kept))

\* the value of the pivot at (t, col), and NaN where no row has that rank
PivotCell(fr, kept, t, col) ==
    LET hit == {e \in kept : e.Time = t /\ e.rank = col}
    IN  IF hit = {} THEN NaN ELSE fr[(CHOOSE e \in hit : TRUE).i].PlayerID

\* line 333: toi left-merged with both pivots on Time
MergeLeft(fr, times, hkept, rkept) ==
    LET hcols == Range(TeamColumns(hkept))
        rcols == Range(TeamColumns(rkept))
    IN  [k \in 1..Len(times) |->
            [Time |-> times[k],
             cells |-> [c \in hcols \cup rcols |->
                 IF c \in hcols THEN PivotCell(fr, hkept, times[k], c)
                 ELSE PivotCell(fr, rkept, times[k], c)]]]

(***************************************************************************)
(* The inputs: lists of shift records as the API sends them, with clock    *)
(* strings "M:SS".  The lists come from four families.                     *)
(***************************************************************************)
TeamCodes == {"A", "B", "C"}
PlayerIds == {1, 2}
ClockSeconds == {0, 1, 2}
StackSeconds == {0, 1, 2, 3}

Shift(p, per, s, e, t) ==
    [playerId |-> p, period |-> per, startTime |-> Clock(0, s), endTime |-> Clock(0, e),
     duration |-> Clock(0, e - s), teamAbbrev |-> t]

\* well-formed records: the end clock is not before the start clock
ClockPairs(secs) == {c \in secs \X secs : c[1] <= c[2]}

\* every list of at most MaxLen records, in any order
GeneralRecords ==
    {Shift(p, 1, c[1], c[2], t) : p \in PlayerIds, c \in ClockPairs(ClockSeconds),
                                  t \in TeamCodes}

GeneralInputs == UNION {[1..n -> GeneralRecords] : n \in 0..MaxLen}

\* the one road record that ends the lists of the next two families
RoadShift(p) == Shift(p, 1, 0, 1, "B")

\* at most MaxStack shifts of one player of team A, in any order
StackInputs ==
    UNION {{s \o <<RoadShift(2)>> :
               s \in [1..n -> {Shift(1, 1, c[1], c[2], "A") : c \in ClockPairs(StackSeconds)}]}
           : n \in 1..MaxStack}

\* at most MaxLineup players of team A on the ice from 0:00, each until 0:01 or
\* until FullShift
LineupInputs ==
    UNION {{[k \in 1..n |-> Shift(k, 1, 0, e[k], "A")] \o <<RoadShift(n + 1)>> :
               e \in [1..n -> {1, FullShift}]}
           : n \in 1..MaxLineup}

\* one shift per player, the players' teams in any order, in periods 1..MaxPeriod
TeamInputs ==
    UNION {{[k \in 1..n |-> Shift(k, per, 0, 1, t[k])] : t \in [1..n -> TeamCodes],
                                                         per \in 1..MaxPeriod}
           : n \in 1..MaxTeamLen}

Inputs == GeneralInputs \cup StackInputs \cup LineupInputs \cup TeamInputs

ArgPairs == {<<None, None>>, <<"A", "B">>, <<"B", "A">>}

Pending == [kind |-> "pending", toi |-> <<>>]

\* line 246 returning an empty table
ReturnNoneAlt == [kind |-> "table", toi |-> <<>>]

\* line 246: a bare return
ReturnNone == [kind |-> "None", toi |-> <<>>]

\* an exception leaves the call
Raise(error) == [kind |-> error, toi |-> <<>>]

\* line 335
Return(table) == [kind |-> "table", toi |-> table]

InitShifts ==
    /\ pc = "call"
    /\ data \in Inputs
    /\ \E a \in ArgPairs : homename = a[1] /\ roadname = a[2]
    /\ home = None
    /\ road = None
    /\ df = <<>>
    /\ tempdf = {}
    /\ hranked = {}
    /\ rranked = {}
    /\ hdf = {}
    /\ rdf = {}
    /\ ret = Pending

\* read_shifts_from_json(data, homename, roadname), lines 243-335
ReadShiftsFromJson ==
    /\ pc = "call"
    /\ pc' = "done"
    /\ UNCHANGED <<data, homename, roadname>>
    /\ IF Len(data) = 0
       THEN /\ ret' = ReturnNone
            /\ UNCHANGED <<home, road, df, tempdf, hranked, rranked, hdf, rdf>>
       ELSE /\ home' = InferHome(data, homename)
            /\ road' = InferRoad(data, homename, roadname)
            /\ df' = Df(data)
            /\ tempdf' = Expand(df')
            /\ hranked' = Ranked(df', tempdf', home')
            /\ IF road' = None
               THEN \* line 309: 'Team == "' + None
                    /\ ret' = Raise("TypeError")
                    /\ UNCHANGED <<rranked, hdf, rdf>>
               ELSE /\ rranked' = Ranked(df', tempdf', road')
                    /\ hdf' \in Dedupe(df', hranked')
                    /\ rdf' \in Dedupe(df', rranked')
                    /\ ret' = IF PivotDuplicates(hdf') \/ PivotDuplicates(rdf')
                              THEN Raise("ValueError")
                              ELSE Return(MergeLeft(df', ToiTimes(df'), hdf', rdf'))

(***************************************************************************)
(* Properties of read_shifts_from_json, checked under Spec.                *)
(***************************************************************************)
Called == pc = "done" /\ Len(data) > 0

\* the call came as far as duplicate resolution (line 325)
Resolved == pc = "done" /\ ret.kind \in {"table", "ValueError"}

\* the rows of the expanded frame made from record k
SecondsOf(k) == {e.Time : e \in {x \in tempdf : x.i = k}}

\* the players in the columns of one team in a row of the returned table
PlayersInRow(row, team) ==
    {row.cells[c] : c \in {x \in DOMAIN row.cells : x[1] = team /\ row.cells[x] # NaN}}

\* the rank a column name or a row's rank stands for
RankNumber(name) == ParseInt(Tail(name))

\* C1: when a table is returned, its Time column is 0, 1, ..., max(End) in this
\* order: row k holds second k - 1, so every second of the range is in exactly
\* one row, also the seconds at which no player is on the ice.
C1_TimeCoverage ==
    (pc = "done" /\ ret.kind = "table") =>
        /\ Len(ret.toi) = Max({df[k].End : k \in 1..Len(df)} \cup {-1}) + 1
        /\ \A k \in 1..Len(ret.toi) : ret.toi[k].Time = k - 1

C1_Witness ==
    /\ pc = "done"
    /\ ret.kind = "table"
    /\ Len(ret.toi) >= 3
    /\ \E k \in 1..Len(ret.toi) : \A e \in tempdf : e.Time # ret.toi[k].Time

\* C2: in every row of the returned table, the columns of each team hold at most
\* 5 distinct players.
C2_RankBound ==
    (pc = "done" /\ ret.kind = "table") =>
        \A k \in 1..Len(ret.toi) :
            /\ Cardinality(PlayersInRow(ret.toi[k], home)) <= 5
            /\ Cardinality(PlayersInRow(ret.toi[k], road)) <= 5

\* seven players of the home team share a second and five are in its row
C2_Witness ==
    /\ pc = "done"
    /\ ret.kind = "table"
    /\ \E k \in 1..Len(ret.toi) :
        /\ Cardinality({df[e.i].PlayerID : e \in {x \in hdf : x.Time = ret.toi[k].Time}}) >= 7
        /\ Cardinality(PlayersInRow(ret.toi[k], home)) = 5

\* two rows of one team's ranked frame for the same second and player, the
\* first of a record of strictly greater duration
Rivals(ranked, e1, e2) ==
    /\ e1 \in ranked /\ e2 \in ranked
    /\ e1.Time = e2.Time
    /\ df[e1.i].PlayerID = df[e2.i].PlayerID
    /\ df[e1.i].Duration > df[e2.i].Duration

\* the second of the row lies in the shift it was made from
InShift(e) == df[e.i].Start <= e.Time /\ e.Time <= df[e.i].End

\* C3 as stated: of any two records of a team that cover the same second for the
\* same player with different durations, the row of the longer one is kept and
\* the row of the other is dropped.
C3_LongerOfTwoKept ==
    Resolved =>
        /\ \A e1 \in hranked, e2 \in hranked :
               (Rivals(hranked, e1, e2) /\ InShift(e1) /\ InShift(e2))
                   => (e1 \in hdf /\ e2 \notin hdf)
        /\ \A e1 \in rranked, e2 \in rranked :
               (Rivals(rranked, e1, e2) /\ InShift(e1) /\ InShift(e2))
                   => (e1 \in rdf /\ e2 \notin rdf)

\* the rows of the frame for the second and player of row e
GroupOf(ranked, e) ==
    {x \in ranked : x.Time = e.Time /\ df[x.i].PlayerID = df[e.i].PlayerID}

LongestKept(ranked, kept) ==
    \A e1 \in ranked, e2 \in ranked :
        Rivals(ranked, e1, e2) =>
            /\ e2 \notin kept
            /\ \E x \in GroupOf(ranked, e1) : x \in kept
            /\ \A x \in GroupOf(ranked, e1) :
                   x \in kept => \A y \in GroupOf(ranked, e1) :
                                     df[y.i].Duration <= df[x.i].Duration
            /\ (\A x \in GroupOf(ranked, e1) \ {e1} :
                   df[x.i].Duration < df[e1.i].Duration) => e1 \in kept

\* C3 amended: the row of the shorter record is dropped; the rows kept for that
\* second and player are of a record of the greatest duration, and the row of the
\* longer of the two is kept when no third record of the team covers that second
\* for that player with a duration at least as great.
C3_LongestKept ==
    Resolved => (LongestKept(hranked, hdf) /\ LongestKept(rranked, rdf))

C3_Witness ==
    /\ Resolved
    /\ \E e1 \in hranked, e2 \in hranked :
        /\ Rivals(hranked, e1, e2) /\ InShift(e1) /\ InShift(e2)
        /\ e1 \in hdf /\ e2 \notin hdf

\* C4: without team codes, home is the first record's team and road is the team
\* of the last record whose team differs from it.
C4_TeamInference ==
    (Called /\ homename = None /\ roadname = None) =>
        /\ home = data[1].teamAbbrev
        /\ LET differ == {k \in 1..Len(data) : data[k].teamAbbrev # data[1].teamAbbrev}
           IN  differ # {} => road = data[Max(differ)].teamAbbrev

\* the teams A, A, B of the example
C4_Witness ==
    /\ Called /\ homename = None /\ roadname = None
    /\ Len(data) = 3
    /\ data[1].teamAbbrev = "A" /\ data[2].teamAbbrev = "A" /\ data[3].teamAbbrev = "B"
    /\ home = "A" /\ road = "B"

\* a record from 0:00 to 0:10 in period 1
IsTenSecondShift(r) ==
    /\ r.startTime = <<"0", ":", "0", "0">>
    /\ r.endTime = <<"0", ":", "1", "0">>
    /\ r.period = 1

\* C5 as stated: such a record gives its player rows for the seconds 0..8.
C5_SecondsZeroToEight ==
    Called => \A k \in 1..Len(data) : IsTenSecondShift(data[k]) => SecondsOf(k) = 0..8

\* C5 amended: such a record gives its player rows for the seconds 0..9, the end
\* second 10 - 1 = 9 included.
C5_SecondsZeroToNine ==
    Called => \A k \in 1..Len(data) : IsTenSecondShift(data[k]) => SecondsOf(k) = 0..9

C5_Witness ==
    /\ Called
    /\ \E k \in 1..Len(data) : IsTenSecondShift(data[k]) /\ SecondsOf(k) = 0..9

\* C7: on an empty list the call returns None, raises nothing and builds no frame
\* from the records, with or without team codes.
C7_EmptyInput ==
    (pc = "done" /\ Len(data) = 0) =>
        /\ ret.kind = "None"
        /\ df = <<>> /\ tempdf = {} /\ hranked = {} /\ rranked = {}

C7_Witness ==
    /\ pc = "done" /\ Len(data) = 0
    /\ homename # None
    /\ ret.kind = "None"

\* the players of the rows of a team's frame at second t with rank 1 to 5
TopFive(kept, t) ==
    {df[e.i].PlayerID : e \in {x \in kept : x.Time = t /\ RankNumber(x.rank) \in 1..5}}

\* C8 as stated: in every row of the returned table the players in a team's
\* columns are the players of that team with ranks 1 to 5 at that second.
C8_RanksOneToFive ==
    (pc = "done" /\ ret.kind = "table") =>
        \A k \in 1..Len(ret.toi) :
            /\ PlayersInRow(ret.toi[k], home) = TopFive(hdf, ret.toi[k].Time)
            /\ PlayersInRow(ret.toi[k], road) = TopFive(rdf, ret.toi[k].Time)

\* C9 as stated: every record has a row for each second from its Start to its End
\* and no other row; none when End < Start.
C9_IntervalExpansion ==
    Called => \A k \in 1..Len(data) : SecondsOf(k) = df[k].Start..df[k].End

\* C10 as stated: after duplicate resolution no two rows of a team share second
\* and rank.
C10_UniqueRank ==
    Resolved =>
        /\ \A e1 \in hdf, e2 \in hdf : (e1.Time = e2.Time /\ e1.rank = e2.rank) => e1 = e2
        /\ \A e1 \in rdf, e2 \in rdf : (e1.Time = e2.Time /\ e1.rank = e2.rank) => e1 = e2


\* every record carries the team code of the first one
OneTeamOnly == \A k \in 1..Len(data) : data[k].teamAbbrev = data[1].teamAbbrev

\* C11 as stated: a call without team codes on a non-empty list raises no error
\* from team inference, and returns a table also when every record carries the
\* same team code.
C11_InferenceNeverRaises ==
    (Called /\ homename = None /\ roadname = None) =>
        /\ ret.kind # "TypeError"
        /\ OneTeamOnly => ret.kind = "table"

(***************************************************************************)
(* update_team_ids_from_json: the TEAM_IDS registry and the calls made.    *)
(***************************************************************************)
VARIABLES
    TEAM_IDS,    \* scrapenhl_globals.TEAM_IDS: a frame [columns, rows]
    calls,       \* the number of calls of update_team_ids_from_json returned
    lastUpdate   \* what the last call did, or NoUpdate

teamVars == <<TEAM_IDS, calls, lastUpdate>>

MaxCalls == 2
MaxRecorded == 2

TeamIds == {1, 2, 3}

\* Python values of different types, so that == between them is defined:
\* a column label is a str, a team id is an int
PyStr(s) == [type |-> "str", int |-> 0, str |-> s]
PyInt(n) == [type |-> "int", int |-> n, str |-> ""]

\* the columns of the frame built at lines 352 and 368
RegistryColumns == {PyStr("ID"), PyStr("Abbreviation"), PyStr("Name")}

\* `key in frame` of a pandas DataFrame (lines 340 and 357): membership in the
\* column labels of the frame, never in the values of a column
PyIn(key, frame) == \E label \in frame.columns : label = key

\* the team page behind teamdata[...]['team']['link'], lines 344-350: the
\* first team of the page is the team of the link
TeamAbbreviations == <<"A", "B", "C">>
TeamNames == <<"Team A", "Team B", "Team C">>
TeamPage(id) ==
    [id |-> id, abbreviation |-> TeamAbbreviations[id], name |-> TeamNames[id]]

\* pd.DataFrame({'ID': [hid], 'Abbreviation': [habbrev], 'Name': [hname]})
DataFrame(teaminfo) ==
    [columns |-> RegistryColumns,
     rows |-> << [ID |-> teaminfo.id, Abbreviation |-> teaminfo.abbreviation,
                  Name |-> teaminfo.name] >>]

\* pd.concat([a, b]): the rows of a, then the rows of b
Concat(a, b) == [columns |-> a.columns \cup b.columns, rows |-> a.rows \o b.rows]

\* an empty frame without columns
EmptyFrame == [columns |-> {}, rows |-> <<>>]

\* whether a row of the registry holds the team id
Recorded(frame, id) == \E i \in 1..Len(frame.rows) : frame.rows[i].ID = id

\* one of the two blocks, lines 340-354 and 357-370.  st is the state of the
\* call so far; ok says whether urlopen and read succeeded.  A failed fetch
\* raises out of the function, so the block after it does not run.
UpdateBlock(st, id, ok) ==
    IF st.raised
    THEN st
    ELSE IF ~PyIn(PyInt(id), st.frame)
         THEN IF ok
              THEN [frame |-> Concat(st.frame, DataFrame(TeamPage(id))),
                    fetched |-> st.fetched + 1,
                    written |-> st.written + 1,
                    raised |-> FALSE]
              ELSE [st EXCEPT !.fetched = @ + 1, !.raised = TRUE]
         ELSE st

NoUpdate ==
    [hid |-> 0, rid |-> 0, recorded |-> FALSE, rows |-> 0,
     fetched |-> 0, written |-> 0, raised |-> FALSE]

\* update_team_ids_from_json(teamdata), lines 337-370, with the ids of
\* teamdata['home'] and teamdata['away']
UpdateTeamIdsFromJson(hid, rid, homeOk, awayOk) ==
    LET start == [frame |-> TEAM_IDS, fetched |-> 0, written |-> 0, raised |-> FALSE]
        afterHome == UpdateBlock(start, hid, homeOk)
        afterAway == UpdateBlock(afterHome, rid, awayOk)
    IN  /\ calls < MaxCalls
        /\ calls' = calls + 1
        /\ TEAM_IDS' = afterAway.frame
        /\ lastUpdate' = [hid |-> hid, rid |-> rid,
                          recorded |-> Recorded(TEAM_IDS, hid) /\ Recorded(TEAM_IDS, rid),
                          rows |-> Len(TEAM_IDS.rows),
                          fetched |-> afterAway.fetched,
                          written |-> afterAway.written,
                          raised |-> afterAway.raised]

\* the registry before any team was recorded
IdleTeamVars ==
    /\ TEAM_IDS = EmptyFrame
    /\ calls = 0
    /\ lastUpdate = NoUpdate

(***************************************************************************)
(* scrape_game: the raw files on disk and the calls made.                  *)
(***************************************************************************)
VARIABLES
    files,     \* the raw files on disk: file name -> "absent", "page" or "empty"
    prevGame,  \* <<season, game>> of the call before the last one, or NoGame
    lastCall   \* the last call returned: [season, game, force, query], or NoCall

scrapeVars == <<files, prevGame, lastCall>>

vars == <<shiftVars, scrapeVars, teamVars>>

\* the first playoff game id (lines 142, 145, 161 and 164)
FirstPlayoffGame == 30111

Seasons == {2007}
Games == {20001, 21230, FirstPlayoffGame, 30417}

NoGame == <<0, 0>>
NoCall == [season |-> 0, game |-> 0, force |-> FALSE, query |-> FALSE]

\* get_json_save_filename, '{0:s}{1:d}/{2:d}.zlib': the folder is fixed, the
\* name is made of the season, the game and the ending
JsonSaveFilename(season, game) == Str(season) \o <<"/">> \o Str(game) \o <<".zlib">>

\* get_shift_save_filename, '{0:s}{1:d}/{2:d}_shifts.zlib'
ShiftSaveFilename(season, game) ==
    Str(season) \o <<"/">> \o Str(game) \o <<"_shifts.zlib">>

Filenames ==
    {JsonSaveFilename(s, g) : s \in Seasons, g \in Games}
        \cup {ShiftSaveFilename(s, g) : s \in Seasons, g \in Games}

\* os.path.exists(filename)
Exists(fs, filename) == fs[filename] # "absent"

\* lines 135-150 and 154-169: one of the two fetch-and-save blocks.  ok says
\* whether urlopen and read succeeded; the file is written for a game id
\* below FirstPlayoffGame only, with an empty page when the fetch failed
SaveBlock(fs, filename, game, force, ok) ==
    IF force \/ ~Exists(fs, filename)
    THEN IF game < FirstPlayoffGame
         THEN [fs EXCEPT ![filename] = IF ok THEN "page" ELSE "empty"]
         ELSE fs
    ELSE fs

\* whether the block queried the API (lines 138 and 157)
Queried(fs, filename, force) == force \/ ~Exists(fs, filename)

\* scrape_game(season, game, force_overwrite), lines 111-171
ScrapeGame(season, game, force, pbpOk, shiftOk) ==
    LET afterPbp == SaveBlock(files, JsonSaveFilename(season, game), game, force, pbpOk)
    IN  /\ files' = SaveBlock(afterPbp, ShiftSaveFilename(season, game), game, force, shiftOk)
        /\ lastCall' = [season |-> season, game |-> game, force |-> force,
                        query |-> \/ Queried(files, JsonSaveFilename(season, game), force)
                                  \/ Queried(afterPbp, ShiftSaveFilename(season, game), force)]
        /\ prevGame' = <<lastCall.season, lastCall.game>>

InitScrapeVars ==
    /\ files = [f \in Filenames |-> "absent"]
    /\ prevGame = NoGame
    /\ lastCall = NoCall

Init == InitShifts /\ InitScrapeVars /\ IdleTeamVars

Next == ReadShiftsFromJson /\ UNCHANGED <<scrapeVars, teamVars>>

Spec == Init /\ [][Next]_vars

\* the calls of scrape_game, with no shift list to parse
InitScrape ==
    /\ pc = "call"
    /\ data = <<>>
    /\ homename = None
    /\ roadname = None
    /\ home = None
    /\ road = None
    /\ df = <<>>
    /\ tempdf = {}
    /\ hranked = {}
    /\ rranked = {}
    /\ hdf = {}
    /\ rdf = {}
    /\ ret = Pending
    /\ InitScrapeVars
    /\ IdleTeamVars

NextScrape ==
    /\ \E season \in Seasons, game \in Games, force \in BOOLEAN,
          pbpOk \in BOOLEAN, shiftOk \in BOOLEAN :
            ScrapeGame(season, game, force, pbpOk, shiftOk)
    /\ UNCHANGED <<shiftVars, teamVars>>

SpecScrape == InitScrape /\ [][NextScrape]_vars

(***************************************************************************)
(* Properties of scrape_game, checked under SpecScrape.                    *)
(***************************************************************************)
\* C6 as stated: a call without force_overwrite that follows a call for the same
\* season and game finds both raw files saved and does not query the API.
C6_SecondCallNoQuery ==
    (lastCall # NoCall /\ prevGame = <<lastCall.season, lastCall.game>> /\ ~lastCall.force) =>
        /\ Exists(files, JsonSaveFilename(lastCall.season, lastCall.game))
        /\ Exists(files, ShiftSaveFilename(lastCall.season, lastCall.game))
        /\ ~lastCall.query

(***************************************************************************)
(* update_team_ids_from_json on its own: a registry read from a team-id    *)
(* file that holds every team once, then calls for any two teams.          *)
(***************************************************************************)
RECURSIVE RowsOf(_)
RowsOf(ids) ==
    IF Len(ids) = 0 THEN <<>>
    ELSE Concat(DataFrame(TeamPage(ids[1])), [columns |-> {}, rows |-> RowsOf(Tail(ids))]).rows

\* the registries the team-id file can hold: no team, or up to MaxRecorded
\* teams, each once
Registries ==
    {EmptyFrame} \cup
    {[columns |-> RegistryColumns, rows |-> RowsOf(ids)] :
        ids \in {q \in UNION {[1..n -> TeamIds] : n \in 0..MaxRecorded} :
                    \A i, j \in 1..Len(q) : i # j => q[i] # q[j]}}

InitTeams ==
    /\ pc = "call"
    /\ data = <<>>
    /\ homename = None
    /\ roadname = None
    /\ home = None
    /\ road = None
    /\ df = <<>>
    /\ tempdf = {}
    /\ hranked = {}
    /\ rranked = {}
    /\ hdf = {}
    /\ rdf = {}
    /\ ret = Pending
    /\ InitScrapeVars
    /\ TEAM_IDS \in Registries
    /\ calls = 0
    /\ lastUpdate = NoUpdate

NextTeams ==
    /\ \E hid \in TeamIds, homeOk \in BOOLEAN, awayOk \in BOOLEAN :
        \E rid \in TeamIds \ {hid} :
            UpdateTeamIdsFromJson(hid, rid, homeOk, awayOk)
    /\ UNCHANGED <<shiftVars, scrapeVars>>

SpecTeams == InitTeams /\ [][NextTeams]_vars

(***************************************************************************)
(* Properties of update_team_ids_from_json, checked under SpecTeams.       *)
(***************************************************************************)
\* C12 as stated: a call whose home and away team ids are both recorded in
\* TEAM_IDS appends no row, fetches no team page and writes no team-id file,
\* so that every team id occurs at most once in TEAM_IDS.
C12_RecordedTeamsUnchanged ==
    /\ (calls > 0 /\ lastUpdate.recorded) =>
            /\ Len(TEAM_IDS.rows) = lastUpdate.rows
            /\ lastUpdate.fetched = 0
            /\ lastUpdate.written = 0
    /\ \A i, j \in 1..Len(TEAM_IDS.rows) :
            i # j => TEAM_IDS.rows[i].ID # TEAM_IDS.rows[j].ID

====
